---------------------------- MODULE Spec2Model ----------------------------
(***************************************************************************)
(* Model of src/bot.py: a Telegram bot that sells access to a private      *)
(* channel (YooKassa payment -> check -> invite link) and broadcasts       *)
(* announcements to subscribed users.                                      *)
(*                                                                         *)
(* Handlers are asyncio coroutines run as concurrent tasks by the          *)
(* dispatcher; they interleave at every await.  Each action below is the   *)
(* code between two awaits that touch shared state (the PostgreSQL tables, *)
(* the payment gateway, the chat transport).                               *)
(***************************************************************************)
EXTENDS Integers, Sequences, FiniteSets, TLC

\* ------------------------------------------------------------- bounds
NUsers == 2
NTasks == 2
MaxTx == 1
MaxClock == 1
MaxTxRace == 2

\* ------------------------------------------------------------- constants
\* peremen.ADMIN_ID: the admin is an ordinary Telegram user of the bot.
ADMIN_ID == 1

Users == 1 .. NUsers
Tasks == 1 .. NTasks
\* the task slots of a specification in which one callback handler runs at a time
Solo == {t \in Tasks : \A s \in Tasks : t <= s}

\* Optional[str]: None is the empty sequence, a value x is <<x>>.
None == << >>
Some(x) == << x >>

\* payment["status"] as the gateway may report it; NoStatus: the key is absent.
NoStatus == "<absent>"
GwStatuses == {"pending", "waiting_for_capture", "succeeded", "canceled", NoStatus}

\* ------------------------------------------------------------- str()
Digit(d) ==
  CASE d = 0 -> "0" [] d = 1 -> "1" [] d = 2 -> "2" [] d = 3 -> "3" [] d = 4 -> "4"
    [] d = 5 -> "5" [] d = 6 -> "6" [] d = 7 -> "7" [] d = 8 -> "8" [] OTHER -> "9"

RECURSIVE str(_)
str(n) == IF n < 10 THEN Digit(n) ELSE str(n \div 10) \o Digit(n % 10)

\* the gateway's transaction ids, in the order it creates them
TxId(n) == "tx-" \o str(n)

\* id of a transaction that exists at the gateway before the bot starts
LegacyTx == TxId(0)

\* metadata.tg_user_id values a stored transaction can carry ("" : no metadata)
MetaVals == {""} \cup {str(u) : u \in Users}

\* ------------------------------------------------------------- state
VARIABLES
  users,      \* table users:    user_id -> [is_subscribed, updated_at]
  payments,   \* table payments: user_id -> [payment_id, updated_at]
  gw,         \* the gateway's transactions: id -> [status, metadata]
  now,        \* now_utc()
  tasks,      \* the running callback handlers, one record of locals per task slot
  bc,         \* the broadcast handler (cmd_broadcast / cmd_broadcast_here) and its locals
  last,       \* history: the locals and outcome of the callback handler that returned last
  log,        \* history: the delivery attempts of the broadcast run, <<uid, outcome>>
  removed,    \* history: users the run deleted and nobody has written a row for since
  paid,       \* history: per user, what happened to the reference since cb_pay saved it
  granted,    \* history: per user, an invite was minted on the current reference
  seen        \* history: per user, what the last check answered, while still current

ledger == << users, payments >>
hist == << removed, paid, granted, seen >>
vars == << users, payments, gw, now, tasks, bc, last, log, removed, paid, granted, seen >>

\* ------------------------------------------------------------- Ledger
Drop(f, k) == [x \in DOMAIN f \ {k} |-> f[x]]

\* (mutant) ON CONFLICT also takes is_subscribed from the inserted row
upsert_user_resetting(user_id) ==
  IF user_id \in DOMAIN users
    THEN [users EXCEPT ![user_id] = [is_subscribed |-> FALSE, updated_at |-> now]]
    ELSE users @@ (user_id :> [is_subscribed |-> FALSE, updated_at |-> now])

\* (mutant) a new record starts subscribed
upsert_user_subscribing(user_id) ==
  IF user_id \in DOMAIN users
    THEN [users EXCEPT ![user_id].updated_at = now]
    ELSE users @@ (user_id :> [is_subscribed |-> TRUE, updated_at |-> now])

\* INSERT ... ON CONFLICT (user_id) DO UPDATE SET updated_at: the users table after
upsert_user(user_id) ==
  IF user_id \in DOMAIN users
    THEN [users EXCEPT ![user_id].updated_at = now]
    ELSE users @@ (user_id :> [is_subscribed |-> FALSE, updated_at |-> now])

\* the users table after set_subscribed(user_id, subscribed)
set_subscribed(user_id, subscribed) ==
  IF user_id \in DOMAIN users
    THEN [users EXCEPT ![user_id] = [is_subscribed |-> subscribed, updated_at |-> now]]
    ELSE users @@ (user_id :> [is_subscribed |-> subscribed, updated_at |-> now])

get_subscribed(user_id) ==
  user_id \in DOMAIN users /\ users[user_id].is_subscribed

\* SELECT user_id FROM users WHERE is_subscribed=TRUE
get_subscribers == {u \in DOMAIN users : users[u].is_subscribed}

\* (mutant) an UPDATE in place of the upsert: a first payment is not stored
save_last_payment_update_only(user_id, payment_id) ==
  IF user_id \in DOMAIN payments
    THEN [payments EXCEPT ![user_id] = [payment_id |-> payment_id, updated_at |-> now]]
    ELSE payments

\* the payments table after save_last_payment(user_id, payment_id)
save_last_payment(user_id, payment_id) ==
  IF user_id \in DOMAIN payments
    THEN [payments EXCEPT ![user_id] = [payment_id |-> payment_id, updated_at |-> now]]
    ELSE payments @@ (user_id :> [payment_id |-> payment_id, updated_at |-> now])

get_last_payment(user_id) ==
  IF user_id \in DOMAIN payments THEN Some(payments[user_id].payment_id) ELSE None

\* (mutant) the payments row is left behind
remove_user_users_only(user_id) ==
  /\ users' = Drop(users, user_id)
  /\ payments' = payments

\* (mutant) the first DELETE commits on its own, the second never runs
remove_user_first_delete_only(user_id) ==
  /\ users' = Drop(users, user_id)
  /\ UNCHANGED payments

\* one transaction: both DELETEs commit together
remove_user(user_id) ==
  /\ users' = Drop(users, user_id)
  /\ payments' = Drop(payments, user_id)

\* ------------------------------------------------------------- gateway
\* how many transactions the bot has created, and the id the gateway gives the next
Created == Cardinality(DOMAIN gw \ {LegacyTx})

NextTxId == TxId(Created + 1)

\* the transaction yk_create_payment(user_id) creates: metadata.tg_user_id = str(user_id)
yk_create_payment(user_id) ==
  [status |-> "pending", metadata |-> str(user_id)]

\* the statuses the processor can move a transaction to (NoStatus: it stops reporting one)
GwNext(s) ==
  IF s = "pending" THEN {"waiting_for_capture", "succeeded", "canceled", NoStatus}
  ELSE IF s = "waiting_for_capture" THEN {"succeeded", "canceled"}
  ELSE {}

\* the external processor moves a transaction to another status
GatewayUpdate ==
  \E id \in DOMAIN gw : \E s \in GwNext(gw[id].status) :
    /\ gw' = [gw EXCEPT ![id].status = s]
    /\ seen' = [u \in Users |-> "none"]
    /\ tasks' = [t \in Tasks |-> [tasks[t] EXCEPT !.prev = "none"]]
    /\ UNCHANGED << users, payments, now, bc, last, log, removed, paid, granted >>

\* now_utc() moves on
Tick ==
  /\ now < MaxClock
  /\ now' = now + 1
  /\ UNCHANGED << users, payments, gw, tasks, bc, last, log, hist >>

\* ------------------------------------------------------------- callback handlers
EmptyTable == [x \in {} |-> x]

\* the locals of one handler coroutine; outcome is what it answered the user.
\* History fields: pre/post (the Ledger when it was called / when it returned),
\* touched (somebody else wrote the Ledger in between), afterPay (the user's cb_pay
\* had saved a reference before the call), again (an invite had been minted on the
\* user's reference before the call), prev (what the user's last check answered, if
\* neither the gateway nor the reference changed since), gone (a broadcast removed the
\* user after cb_pay saved the reference), afterFail (the handler that returned just
\* before the call was a grant of the same user that failed to mint).
IdleTask ==
  [pc |-> "idle", kind |-> "none", user |-> 0, payment_id |-> None,
   status |-> "", meta |-> "", current |-> FALSE, outcome |-> "none", mints |-> 0,
   pre |-> << EmptyTable, EmptyTable >>, post |-> << EmptyTable, EmptyTable >>,
   touched |-> FALSE, afterPay |-> FALSE, again |-> FALSE, prev |-> "none",
   gone |-> FALSE, afterFail |-> FALSE]

\* a new handler runs in the first free task slot
FreeSlot(t) ==
  /\ tasks[t].pc = "idle"
  /\ \A s \in Tasks : s < t => tasks[s].pc # "idle"

\* the other running handlers, told that the Ledger was written (changed) under them
Others(t, changed) ==
  [s \in Tasks |->
     IF s # t /\ tasks[s].pc # "idle" /\ changed
       THEN [tasks[s] EXCEPT !.touched = TRUE] ELSE tasks[s]]

\* every handler: user_id = call.from_user.id; await upsert_user(user_id)
Enter(t, u, kind, pc) ==
  /\ FreeSlot(t)
  /\ users' = upsert_user(u)
  /\ removed' = removed \ {u}
  /\ tasks' = [Others(t, users' # users) EXCEPT ![t] =
       [IdleTask EXCEPT !.pc = pc, !.kind = kind, !.user = u, !.pre = ledger,
                        !.afterPay = (kind = "check" /\ paid[u] # "no"),
                        !.again = (kind = "access" /\ granted[u]),
                        !.afterFail = (/\ kind = "access" /\ last.kind = "access"
                                       /\ last.user = u /\ u \notin removed
                                       /\ last.outcome = "GrantFailed"),
                        !.prev = IF kind = "check" THEN seen[u] ELSE "none"]]
  /\ UNCHANGED << payments, gw, now, bc, last, log, paid, granted, seen >>

\* the handler returns: its slot is free again, last keeps what it did
Return(t, rec) ==
  last' = [rec EXCEPT !.pc = "idle", !.post = << users', payments' >>]

Finish(t, rec) ==
  /\ tasks' = [tasks EXCEPT ![t] = IdleTask]
  /\ Return(t, rec)

\* ---- cb_pay
cb_pay_enter(t, u) == Enter(t, u, "pay", "create")

\* (mutant) a failed create forgets the reference of the earlier payment
cb_pay_create_forgetting(t, cap) ==
  /\ tasks[t].kind = "pay" /\ tasks[t].pc = "create"
  /\ UNCHANGED << users, now, bc, log, hist >>
  /\ \/ /\ payments' = Drop(payments, tasks[t].user)
        /\ Finish(t, [tasks[t] EXCEPT !.outcome = "GatewayError"])
        /\ UNCHANGED gw
     \/ /\ Created < cap
        /\ gw' = gw @@ (NextTxId :> yk_create_payment(tasks[t].user))
        /\ tasks' = [tasks EXCEPT ![t].pc = "save", ![t].payment_id = Some(NextTxId)]
        /\ UNCHANGED << payments, last >>

cb_pay_create(t, cap) ==
  /\ tasks[t].kind = "pay" /\ tasks[t].pc = "create"
  /\ UNCHANGED << users, payments, now, bc, log, hist >>
  /\ \/ \* yk_create_payment raises (status >= 400, timeout, ...)
        /\ Finish(t, [tasks[t] EXCEPT !.outcome = "GatewayError"])
        /\ UNCHANGED gw
     \/ /\ Created < cap
        /\ gw' = gw @@ (NextTxId :> yk_create_payment(tasks[t].user))
        /\ tasks' = [tasks EXCEPT ![t].pc = "save", ![t].payment_id = Some(NextTxId)]
        /\ UNCHANGED last

cb_pay_save(t) ==
  /\ tasks[t].kind = "pay" /\ tasks[t].pc = "save"
  /\ payments' = save_last_payment(tasks[t].user, tasks[t].payment_id[1])
  /\ UNCHANGED << users, gw, now, bc, log >>
  /\ paid' = [paid EXCEPT ![tasks[t].user] = "saved"]
  /\ granted' = [granted EXCEPT ![tasks[t].user] = FALSE]
  /\ seen' = [seen EXCEPT ![tasks[t].user] = "none"]
  /\ removed' = removed \ {tasks[t].user}
  /\ tasks' = [s \in Tasks |->
       IF s = t THEN IdleTask
       ELSE IF tasks[s].user = tasks[t].user
         THEN [Others(t, TRUE)[s] EXCEPT !.again = FALSE, !.prev = "none"]
         ELSE Others(t, TRUE)[s]]
  /\ Return(t, [tasks[t] EXCEPT !.outcome = "Initiated"])

\* ---- cb_check
\* status = payment.get("status", "unknown")
check_status(payment) ==
  IF payment.status = NoStatus THEN "unknown" ELSE payment.status

\* (mutant) an unknown status counts as still in progress
check_outcome_lenient(status) ==
  IF status = "succeeded" THEN "Confirmed"
  ELSE IF status \in {"pending", "waiting_for_capture", "unknown"} THEN "InProgress"
  ELSE "Failed"

\* the three answers of cb_check
check_outcome(status) ==
  IF status = "succeeded" THEN "Confirmed"
  ELSE IF status \in {"pending", "waiting_for_capture"} THEN "InProgress"
  ELSE "Failed"

cb_check_enter(t, u) == Enter(t, u, "check", "get")

cb_check_get(t) ==
  /\ tasks[t].kind = "check" /\ tasks[t].pc = "get"
  /\ UNCHANGED << users, payments, gw, now, bc, log, removed, paid, granted >>
  /\ LET payment_id == get_last_payment(tasks[t].user) IN
       IF payment_id = None
         THEN /\ Finish(t, [tasks[t] EXCEPT !.outcome = "NoPendingPayment",
                                           !.gone = (paid[tasks[t].user] = "removed")])
              /\ seen' = [seen EXCEPT ![tasks[t].user] = "NoPendingPayment"]
         ELSE /\ tasks' = [tasks EXCEPT ![t].pc = "fetch", ![t].payment_id = payment_id]
              /\ UNCHANGED << last, seen >>

cb_check_fetch(t) ==
  /\ tasks[t].kind = "check" /\ tasks[t].pc = "fetch"
  /\ UNCHANGED << users, payments, gw, now, bc, log, removed, paid, granted >>
  /\ \/ \* yk_get_payment raises
        /\ Finish(t, [tasks[t] EXCEPT !.outcome = "GatewayError"])
        /\ UNCHANGED seen
     \/ /\ tasks[t].payment_id[1] \in DOMAIN gw
        /\ LET status == check_status(gw[tasks[t].payment_id[1]]) IN
             /\ Finish(t, [tasks[t] EXCEPT !.status = status,
                                           !.outcome = check_outcome(status)])
             /\ seen' = [seen EXCEPT ![tasks[t].user] = check_outcome(status)]

\* ---- cb_access
\* (mutant) the metadata only has to name some user of the bot
owner_ok_any_user(meta, user_id) == meta \in {""} \cup {str(u) : u \in Users}

\* str(meta.get("tg_user_id", "")) in ("", str(user_id))
owner_ok(meta, user_id) == meta \in {"", str(user_id)}

\* (mutant) only a canceled payment is refused
access_verdict_canceled_only(status, meta, user_id) ==
  IF ~ owner_ok(meta, user_id) THEN "OwnershipMismatch"
  ELSE IF status = "canceled" THEN "NotConfirmed"
  ELSE "mint"

\* what cb_access does with the fetched payment: an early return, or go on to mint
access_verdict(status, meta, user_id) ==
  IF ~ owner_ok(meta, user_id) THEN "OwnershipMismatch"
  ELSE IF status # "succeeded" THEN "NotConfirmed"
  ELSE "mint"

cb_access_enter(t, u) == Enter(t, u, "access", "get")

cb_access_get(t) ==
  /\ tasks[t].kind = "access" /\ tasks[t].pc = "get"
  /\ UNCHANGED << users, payments, gw, now, bc, log, hist >>
  /\ LET payment_id == get_last_payment(tasks[t].user) IN
       IF payment_id = None
         THEN Finish(t, [tasks[t] EXCEPT !.outcome = "NoPendingPayment"])
         ELSE /\ tasks' = [tasks EXCEPT ![t].pc = "fetch", ![t].payment_id = payment_id]
              /\ UNCHANGED last

cb_access_fetch(t) ==
  /\ tasks[t].kind = "access" /\ tasks[t].pc = "fetch"
  /\ UNCHANGED << users, payments, gw, now, bc, log, hist >>
  /\ \/ \* yk_get_payment raises
        Finish(t, [tasks[t] EXCEPT !.outcome = "GatewayError"])
     \/ /\ tasks[t].payment_id[1] \in DOMAIN gw
        /\ LET payment == gw[tasks[t].payment_id[1]]
               verdict == access_verdict(payment.status, payment.metadata, tasks[t].user)
               fetched == [tasks[t] EXCEPT !.status = payment.status,
                                           !.meta = payment.metadata]
           IN  IF verdict = "mint"
                 THEN /\ tasks' = [tasks EXCEPT ![t] = [fetched EXCEPT !.pc = "mint"]]
                      /\ UNCHANGED last
                 ELSE Finish(t, [fetched EXCEPT !.outcome = verdict])

\* (mutant) a failed mint rolls the verified payment back
cb_access_mint_rolling_back(t) ==
  /\ tasks[t].kind = "access" /\ tasks[t].pc = "mint"
  /\ UNCHANGED << users, gw, now, bc, log, removed, paid, seen >>
  /\ \E ok \in BOOLEAN :
       /\ payments' = IF ok THEN payments ELSE Drop(payments, tasks[t].user)
       /\ Finish(t, [tasks[t] EXCEPT !.mints = @ + 1,
                                     !.outcome = IF ok THEN "Granted" ELSE "GrantFailed"])
       /\ granted' = [granted EXCEPT ![tasks[t].user] = @ \/ ok]

\* (mutant) a minted invite uses the reference up
cb_access_mint_consuming(t) ==
  /\ tasks[t].kind = "access" /\ tasks[t].pc = "mint"
  /\ UNCHANGED << users, gw, now, bc, log, removed, paid, seen >>
  /\ \E ok \in BOOLEAN :
       /\ payments' = IF ok THEN Drop(payments, tasks[t].user) ELSE payments
       /\ Finish(t, [tasks[t] EXCEPT !.mints = @ + 1,
                                     !.outcome = IF ok THEN "Granted" ELSE "GrantFailed"])
       /\ granted' = [granted EXCEPT ![tasks[t].user] = @ \/ ok]

\* link = await issue_invite_link(bot)
cb_access_mint(t) ==
  /\ tasks[t].kind = "access" /\ tasks[t].pc = "mint"
  /\ UNCHANGED << users, payments, gw, now, bc, log, removed, paid, seen >>
  /\ \E ok \in BOOLEAN :
       /\ Finish(t, [tasks[t] EXCEPT !.mints = @ + 1,
                                     !.outcome = IF ok THEN "Granted" ELSE "GrantFailed"])
       /\ granted' = [granted EXCEPT ![tasks[t].user] = @ \/ ok]

\* ---- cb_toggle_sub
cb_toggle_sub_enter(t, u) == Enter(t, u, "toggle_sub", "read")

\* current = await get_subscribed(user_id)
cb_toggle_sub_read(t) ==
  /\ tasks[t].kind = "toggle_sub" /\ tasks[t].pc = "read"
  /\ tasks' = [tasks EXCEPT ![t].pc = "write",
                            ![t].current = get_subscribed(tasks[t].user)]
  /\ UNCHANGED << users, payments, gw, now, bc, last, log, hist >>

\* await set_subscribed(user_id, not current)
cb_toggle_sub_write(t) ==
  /\ tasks[t].kind = "toggle_sub" /\ tasks[t].pc = "write"
  /\ users' = set_subscribed(tasks[t].user, ~ tasks[t].current)
  /\ removed' = removed \ {tasks[t].user}
  /\ UNCHANGED << payments, gw, now, bc, log, paid, granted, seen >>
  /\ tasks' = [Others(t, users' # users) EXCEPT ![t] = IdleTask]
  /\ Return(t, [tasks[t] EXCEPT !.outcome = "Toggled"])

\* ------------------------------------------------------------- broadcast
\* (mutant) every user of the bot may broadcast
is_admin_anyone(user_id) == user_id \in Users

is_admin(user_id) == user_id = ADMIN_ID

\* what the transport answers to one send_message / copy_to
Outcomes == {"Delivered", "Forbidden", "RetryAfter", "Error"}

\* the locals of the broadcast handler; reply is what it answered the sender last.
\* History fields: start (the subscribed users when the snapshot was taken), sender
\* and payload (who sent the last command, and whether it carried a message).
IdleBc ==
  [pc |-> "idle", subscribers |-> << >>, i |-> 0,
   ok |-> 0, blocked |-> 0, failed |-> 0, reply |-> "none", start |-> {},
   sender |-> 0, payload |-> FALSE]

\* the orders in which SELECT (no ORDER BY) can return the rows S
Orders(S) ==
  {q \in [1 .. Cardinality(S) -> S] : \A a, b \in DOMAIN q : a # b => q[a] # q[b]}

\* either command up to the start of its loop; payload: it came with something to send
Command(sender, payload) ==
  /\ bc.pc = "idle"
  /\ log' = << >>
  /\ removed' = {}
  /\ UNCHANGED << users, payments, gw, now, tasks, last, paid, granted, seen >>
  /\ IF ~ is_admin(sender)
       THEN bc' = [IdleBc EXCEPT !.sender = sender, !.payload = payload, !.reply = "NoAccess"]
     ELSE IF ~ payload
       THEN bc' = [IdleBc EXCEPT !.sender = sender, !.payload = payload, !.reply = "Usage"]
     ELSE IF get_subscribers = {}
       THEN bc' = [IdleBc EXCEPT !.sender = sender, !.payload = payload, !.reply = "NoSubscribers"]
     ELSE \E subscribers \in Orders(get_subscribers) :
            bc' = [IdleBc EXCEPT !.sender = sender, !.payload = payload, !.reply = "Started", !.pc = "send",
                                 !.subscribers = subscribers, !.i = 1,
                                 !.start = get_subscribers]

\* has_text: len(parts) >= 2
cmd_broadcast(sender, has_text) == Command(sender, has_text)

\* has_reply: message.reply_to_message is set
cmd_broadcast_here(sender, has_reply) == Command(sender, has_reply)

\* for uid in subscribers: the loop goes to the next recipient, or ends
Advance(b) ==
  IF b.i < Len(b.subscribers)
    THEN [b EXCEPT !.pc = "send", !.i = @ + 1]
    ELSE [b EXCEPT !.pc = "report"]

Count(b, counter) ==
  CASE counter = "ok" -> [b EXCEPT !.ok = @ + 1]
    [] counter = "blocked" -> [b EXCEPT !.blocked = @ + 1]
    [] counter = "failed" -> [b EXCEPT !.failed = @ + 1]
    [] OTHER -> b

\* the except clauses of the first attempt: the counter to add to and what follows
on_send(outcome) ==
  CASE outcome = "Delivered" -> [counter |-> "ok", then |-> "pace"]
    [] outcome = "Forbidden" -> [counter |-> "blocked", then |-> "remove"]
    [] outcome = "RetryAfter" -> [counter |-> "none", then |-> "pause"]
    [] OTHER -> [counter |-> "failed", then |-> "next"]

\* (mutant) the retry's success is not counted as a delivery
on_retry_never_ok(outcome) == [counter |-> "failed", then |-> "next"]

\* (mutant) the retry treats TelegramForbiddenError as the first attempt does
on_retry_removing(outcome) ==
  IF outcome = "Delivered" THEN [counter |-> "ok", then |-> "next"]
  ELSE IF outcome = "Forbidden" THEN [counter |-> "blocked", then |-> "remove"]
  ELSE [counter |-> "failed", then |-> "next"]

\* the inner try of the TelegramRetryAfter clause
on_retry(outcome) ==
  IF outcome = "Delivered"
    THEN [counter |-> "ok", then |-> "next"]
    ELSE [counter |-> "failed", then |-> "next"]

Step(b, branch) ==
  IF branch.then = "next"
    THEN Advance(Count(b, branch.counter))
    ELSE [Count(b, branch.counter) EXCEPT !.pc = branch.then]

\* (mutant) a recipient who has unsubscribed since the snapshot is skipped
bc_send_rechecking ==
  /\ bc.pc = "send"
  /\ IF get_subscribed(bc.subscribers[bc.i])
       THEN \E outcome \in Outcomes :
              /\ bc' = Step(bc, on_send(outcome))
              /\ log' = Append(log, << bc.subscribers[bc.i], outcome >>)
       ELSE bc' = Advance(bc) /\ log' = log
  /\ UNCHANGED << users, payments, gw, now, tasks, last, hist >>

\* await bot.send_message(uid, text) / await src.copy_to(chat_id=uid)
bc_send ==
  /\ bc.pc = "send"
  /\ \E outcome \in Outcomes :
       /\ bc' = Step(bc, on_send(outcome))
       /\ log' = Append(log, << bc.subscribers[bc.i], outcome >>)
  /\ UNCHANGED << users, payments, gw, now, tasks, last, hist >>

\* await asyncio.sleep(0.05)
bc_pace ==
  /\ bc.pc = "pace"
  /\ bc' = Advance(bc)
  /\ log' = Append(log, << bc.subscribers[bc.i], "pace" >>)
  /\ UNCHANGED << users, payments, gw, now, tasks, last, hist >>

\* await asyncio.sleep(e.retry_after + 0.5)
bc_pause ==
  /\ bc.pc = "pause"
  /\ bc' = [bc EXCEPT !.pc = "retry"]
  /\ log' = Append(log, << bc.subscribers[bc.i], "pause" >>)
  /\ UNCHANGED << users, payments, gw, now, tasks, last, hist >>

\* the second await bot.send_message(uid, text) / src.copy_to(chat_id=uid)
bc_retry ==
  /\ bc.pc = "retry"
  /\ \E outcome \in Outcomes :
       /\ bc' = Step(bc, on_retry(outcome))
       /\ log' = Append(log, << bc.subscribers[bc.i], outcome >>)
  /\ UNCHANGED << users, payments, gw, now, tasks, last, hist >>

\* await remove_user(uid), inside the except clause: if it raises, the handler dies
bc_remove ==
  /\ bc.pc = "remove"
  /\ UNCHANGED << gw, now, last, log >>
  /\ LET uid == bc.subscribers[bc.i] IN
       \/ /\ remove_user(uid)
          /\ bc' = Advance(bc)
          /\ removed' = removed \cup {uid}
          /\ paid' = [paid EXCEPT ![uid] = IF @ = "saved" THEN "removed" ELSE @]
          /\ granted' = [granted EXCEPT ![uid] = FALSE]
          /\ seen' = [seen EXCEPT ![uid] = "none"]
          /\ tasks' = [s \in Tasks |->
               IF tasks[s].pc # "idle" /\ tasks[s].user = uid
                 THEN [tasks[s] EXCEPT !.touched = TRUE, !.again = FALSE, !.prev = "none"]
               ELSE IF tasks[s].pc # "idle" /\ ledger' # ledger
                 THEN [tasks[s] EXCEPT !.touched = TRUE]
               ELSE tasks[s]]
       \/ /\ bc' = [bc EXCEPT !.pc = "idle", !.reply = "Crashed"]
          /\ UNCHANGED << users, payments, tasks, hist >>

\* await message.answer("Рассылка завершена ...")
bc_report ==
  /\ bc.pc = "report"
  /\ bc' = [bc EXCEPT !.pc = "idle", !.reply = "Finished"]
  /\ UNCHANGED << users, payments, gw, now, tasks, last, log, hist >>

\* ------------------------------------------------------------- initial state
\* db_init keeps the rows of earlier runs: the last user holds a reference to a
\* transaction created before, whose metadata the gateway reports as it stored it.
LegacyHolder == NUsers

InitWith(subscribed, metas) ==
  \E m \in metas :
    /\ gw = (LegacyTx :> [status |-> "pending", metadata |-> m])
    /\ users = [u \in subscribed \cup {LegacyHolder} |->
                  [is_subscribed |-> u \in subscribed, updated_at |-> 0]]
    /\ payments = (LegacyHolder :> [payment_id |-> LegacyTx, updated_at |-> 0])
    /\ now = 0
    /\ tasks = [t \in Tasks |-> IdleTask]
    /\ bc = IdleBc
    /\ last = IdleTask
    /\ log = << >>
    /\ removed = {}
    /\ paid = [u \in Users |-> "no"]
    /\ granted = [u \in Users |-> FALSE]
    /\ seen = [u \in Users |-> "none"]

\* nobody has subscribed yet
Init == InitWith({}, MetaVals)

\* every user subscribed in an earlier run
InitSubscribed == InitWith(Users, {str(LegacyHolder)})

\* only the holder of the earlier transaction, its own, has subscribed
InitHolderSubscribed == InitWith({LegacyHolder}, {str(LegacyHolder)})

\* nobody has subscribed yet, the transaction of the earlier run is the holder's own
InitOwned == InitWith({}, {str(LegacyHolder)})

\* only the holder has a record, subscribed, and its transaction has been paid
InitHolderPaid ==
  /\ gw = (LegacyTx :> [status |-> "succeeded", metadata |-> str(LegacyHolder)])
  /\ users = (LegacyHolder :> [is_subscribed |-> TRUE, updated_at |-> 0])
  /\ payments = (LegacyHolder :> [payment_id |-> LegacyTx, updated_at |-> 0])
  /\ now = 0
  /\ tasks = [t \in Tasks |-> IdleTask]
  /\ bc = IdleBc
  /\ last = IdleTask
  /\ log = << >>
  /\ removed = {}
  /\ paid = [u \in Users |-> "no"]
  /\ granted = [u \in Users |-> FALSE]
  /\ seen = [u \in Users |-> "none"]

\* ------------------------------------------------------------- specifications
\* T: the task slots the dispatcher may use; cap: the transactions the gateway will create
Pay(T, cap) ==
  \/ \E t \in T, u \in Users : cb_pay_enter(t, u)
  \/ \E t \in T : cb_pay_create(t, cap)
  \/ \E t \in T : cb_pay_save(t)

Check(T) ==
  \/ \E t \in T, u \in Users : cb_check_enter(t, u)
  \/ \E t \in T : cb_check_get(t)
  \/ \E t \in T : cb_check_fetch(t)

Access(T) ==
  \/ \E t \in T, u \in Users : cb_access_enter(t, u)
  \/ \E t \in T : cb_access_get(t)
  \/ \E t \in T : cb_access_fetch(t)
  \/ \E t \in T : cb_access_mint(t)

ToggleSub(T) ==
  \/ \E t \in T, u \in Users : cb_toggle_sub_enter(t, u)
  \/ \E t \in T : cb_toggle_sub_read(t)
  \/ \E t \in T : cb_toggle_sub_write(t)

Broadcast ==
  \/ \E sender \in Users, has_text \in BOOLEAN : cmd_broadcast(sender, has_text)
  \/ \E sender \in Users, has_reply \in BOOLEAN : cmd_broadcast_here(sender, has_reply)
  \/ bc_send
  \/ bc_pace
  \/ bc_pause
  \/ bc_retry
  \/ bc_remove
  \/ bc_report

\* initiate and grant, with the gateway moving underneath
NextGrant == GatewayUpdate \/ Tick \/ Pay(Solo, MaxTx) \/ Access(Solo)

SpecGrant == Init /\ [][NextGrant]_vars

\* check, with the gateway and the clock moving underneath
NextCheck == GatewayUpdate \/ Tick \/ Check(Solo)

SpecCheck == InitHolderSubscribed /\ [][NextCheck]_vars

\* broadcast runs while users toggle their subscription
NextBroadcast == Broadcast \/ ToggleSub(Solo)

SpecBroadcast == InitOwned /\ [][NextBroadcast]_vars

\* initiate and check while a broadcast runs over users subscribed earlier
Next == Pay(Solo, MaxTx) \/ Check(Solo) \/ Broadcast

Spec == InitSubscribed /\ [][Next]_vars

\* two cb_pay handlers at a time, of the same user or of two
NextRace == Pay(Tasks, MaxTxRace)

SpecRace == Init /\ [][NextRace]_vars

\* broadcasts alone; every await of a running loop returns or raises in the end
NextRun == Broadcast

LoopFairness ==
  /\ WF_vars(bc_send) /\ WF_vars(bc_pace) /\ WF_vars(bc_pause)
  /\ WF_vars(bc_retry) /\ WF_vars(bc_remove) /\ WF_vars(bc_report)

SpecRun == InitSubscribed /\ [][NextRun]_vars /\ LoopFairness

\* two cb_toggle_sub handlers at a time, of the same user or of two
NextToggle == ToggleSub(Tasks)

SpecToggle == InitOwned /\ [][NextToggle]_vars

\* initiate, check and grant, one at a time, with broadcasts in between
NextFrame == Pay(Solo, MaxTx) \/ Check(Solo) \/ Access(Solo) \/ Broadcast

SpecFrame == InitHolderPaid /\ [][NextFrame]_vars

\* ------------------------------------------------------------- claims
\* the handlers to look at: the one that returned last and the ones still running
Handlers == {last} \cup {tasks[t] : t \in Tasks}

\* the tables after the handler of user u ran over the tables pre, if all it wrote was
\* its entry upsert_user: same payments, same rows and flags, u's row there
OnlyUpsert(pre, post, u) ==
  /\ post[2] = pre[2]
  /\ DOMAIN post[1] = DOMAIN pre[1] \cup {u}
  /\ \A x \in DOMAIN pre[1] :
       /\ post[1][x].is_subscribed = pre[1][x].is_subscribed
       /\ x # u => post[1][x] = pre[1][x]
  /\ u \notin DOMAIN pre[1] => ~ post[1][u].is_subscribed

\* the gateway holds the transaction h refers to, and its owner metadata is
\* non-empty and names somebody else than the user of h
ForeignReference(h) ==
  /\ h.payment_id # None
  /\ h.payment_id[1] \in DOMAIN gw
  /\ gw[h.payment_id[1]].metadata \notin {"", str(h.user)}

\* C1 as stated: a grant (cb_access) on a stored reference whose transaction carries
\* non-empty owner metadata of another user ends in OwnershipMismatch, whatever the
\* status, with issue_invite_link never called and with the Ledger after the call
\* equal to the Ledger before it.
C1_Original ==
  \A h \in Handlers :
    (h.kind = "access" /\ ForeignReference(h)) =>
      /\ h.pc # "mint"
      /\ h.mints = 0
      /\ h.outcome \in {"none", "OwnershipMismatch", "GatewayError"}
      /\ h.outcome = "OwnershipMismatch" => h.post = h.pre

\* C1 amended: such a grant never reaches the invite-minting call, whatever the
\* status: once the gateway has answered it ends in OwnershipMismatch (GatewayError if
\* the fetch itself fails), with issue_invite_link called zero times and with nothing
\* written to the Ledger but the entry upsert_user of the caller, which creates the
\* caller's user record (unsubscribed) if it is missing and refreshes its updated_at;
\* no reference, no subscription flag and no other row changes.
C1_MismatchNeverMints ==
  \A h \in Handlers :
    (h.kind = "access" /\ ForeignReference(h)) =>
      /\ h.pc # "mint"
      /\ h.mints = 0
      /\ h.outcome \in {"none", "OwnershipMismatch", "GatewayError"}
      /\ h.outcome = "OwnershipMismatch" => OnlyUpsert(h.pre, h.post, h.user)

\* C1 witness: a grant on a succeeded transaction of another user was refused, and the
\* caller's user record was written by the call
C1_Witness ==
  /\ last.kind = "access"
  /\ last.outcome = "OwnershipMismatch"
  /\ last.status = "succeeded"
  /\ ForeignReference(last)
  /\ last.post[1][last.user] # last.pre[1][last.user]

\* C2: an invite is minted by a grant only when the user has a stored payment
\* reference and the transaction just fetched for it has status succeeded.  With no
\* stored reference the grant ends in NoPendingPayment, with an owned transaction of any
\* other status (pending, waiting_for_capture, canceled, no status at all) it ends in
\* NotConfirmed; in both cases issue_invite_link is not called.
C2_MintOnlyWhenSucceeded ==
  \A h \in Handlers :
    h.kind = "access" =>
      /\ (h.pc = "mint" \/ h.mints > 0 \/ h.outcome \in {"Granted", "GrantFailed"}) =>
           (h.payment_id # None /\ h.status = "succeeded")
      /\ (h.outcome # "none" /\ ~ h.touched /\ h.user \notin DOMAIN h.pre[2]) =>
           h.outcome = "NoPendingPayment"
      /\ h.outcome = "NoPendingPayment" => (h.payment_id = None /\ h.mints = 0)
      /\ (h.status \notin {"", "succeeded"} /\ h.meta \in {"", str(h.user)}) =>
           (h.outcome = "NotConfirmed" /\ h.mints = 0)
      /\ h.outcome = "NotConfirmed" => (h.status # "succeeded" /\ h.mints = 0)

\* C2 witness: a grant on a transaction the gateway reports without a status was
\* refused as not confirmed
C2_Witness ==
  /\ last.kind = "access"
  /\ last.outcome = "NotConfirmed"
  /\ last.status = NoStatus
  /\ last.mints = 0

\* C3: a grant does not consume the payment reference.  A grant that fetched a
\* succeeded transaction with matching or empty owner metadata calls
\* issue_invite_link exactly once and succeeds (GrantFailed only if that call fails)
\* and leaves the stored reference as it was; a grant that follows an earlier
\* successful grant on the same reference still finds the reference and succeeds
\* again (GatewayError only if the fetch fails, GrantFailed only if minting fails).
C3_GrantDoesNotConsume ==
  /\ \A t \in Tasks : tasks[t].pc = "mint" => tasks[t].mints = 0
  /\ last.kind = "access" =>
       /\ (last.status = "succeeded" /\ last.meta \in {"", str(last.user)}) =>
            /\ last.outcome \in {"Granted", "GrantFailed"}
            /\ last.mints = 1
            /\ ~ last.touched => last.post[2] = last.pre[2]
       /\ (last.again /\ ~ last.touched) =>
            /\ last.outcome \in {"Granted", "GrantFailed", "GatewayError"}
            /\ last.post[2] = last.pre[2]
            /\ last.user \in DOMAIN last.post[2]

\* C3 witness: a second grant on the same reference succeeded, the reference is still there
C3_Witness ==
  /\ last.kind = "access"
  /\ last.again
  /\ last.outcome = "Granted"
  /\ last.mints = 1
  /\ get_last_payment(last.user) = last.payment_id

\* C6: when the create call of the gateway fails (error status or any exception), the
\* initiate (cb_pay) persists no reference: the payments table after it is the one
\* before it (no row if the user had none, the earlier transaction id otherwise).
C6_FailedCreatePersistsNothing ==
  (last.kind = "pay" /\ last.outcome = "GatewayError" /\ ~ last.touched) =>
    /\ last.post[2] = last.pre[2]
    /\ last.payment_id = None

\* C6 witness: the create failed for a user who already had a reference, which is kept
C6_Witness ==
  /\ last.kind = "pay"
  /\ last.outcome = "GatewayError"
  /\ last.user \in DOMAIN last.pre[2]
  /\ get_last_payment(last.user) = Some(last.pre[2][last.user].payment_id)

\* C4 as stated: a check (cb_check) that follows a successful initiate (cb_pay) of the
\* same user answers InProgress or Confirmed (whenever the gateway answers at all),
\* also when a broadcast runs in between.
C4_Original ==
  (last.kind = "check" /\ last.afterPay /\ last.outcome # "GatewayError") =>
    last.outcome \in {"InProgress", "Confirmed"}

\* C4 amended: a check that follows a successful initiate of the same user answers
\* NoPendingPayment only if a broadcast run has removed the user (remove_user, on
\* TelegramForbiddenError) since the reference was saved; otherwise it answers what
\* the gateway reports for the saved transaction.
C4_NoPendingOnlyAfterRemoval ==
  (last.kind = "check" /\ last.afterPay) =>
    /\ last.outcome = "NoPendingPayment" => last.gone
    /\ last.outcome # "NoPendingPayment" =>
         (last.payment_id # None /\ last.outcome \in {"InProgress", "Confirmed", "Failed", "GatewayError"})

\* C4 witness: the check after a successful initiate found no reference, a broadcast
\* had removed the user
C4_Witness ==
  /\ last.kind = "check"
  /\ last.afterPay
  /\ last.outcome = "NoPendingPayment"
  /\ last.gone

\* C5 as stated: after a check the Ledger is what it was before the call, for users
\* with and without a user record, and a check that follows a check of the same user
\* with no change at the gateway in between answers the same.
C5_Original ==
  (last.kind = "check" /\ ~ last.touched) =>
    /\ last.post = last.pre
    /\ (last.prev # "none" /\ last.outcome # "GatewayError") => last.outcome = last.prev

\* C5 amended: a check writes nothing to the Ledger but its entry upsert_user: no
\* payment reference and no subscription flag changes and no row disappears, but the
\* caller's user record is created (unsubscribed) if missing and its updated_at is
\* refreshed.  A check that follows a check of the same user, with no change at the
\* gateway or of the reference in between, answers the same whenever the gateway
\* answers.
C5_CheckOnlyUpserts ==
  (last.kind = "check" /\ ~ last.touched) =>
    /\ OnlyUpsert(last.pre, last.post, last.user)
    /\ (last.prev # "none" /\ last.outcome # "GatewayError") => last.outcome = last.prev

\* C5 witness: a second check in a row answered as the first and refreshed updated_at
C5_Witness ==
  /\ last.kind = "check"
  /\ last.prev = "InProgress"
  /\ last.outcome = last.prev
  /\ last.post # last.pre

\* ---- the delivery attempts of the run, read off its log
Positions == 1 .. Len(log)

IsAttempt(k) == log[k][2] \in Outcomes

\* the attempt at k is the retry after a rate-limit pause / the first one of its recipient
IsRetry(k) == IsAttempt(k) /\ k > 1 /\ log[k - 1][2] = "pause"

IsFirst(k) == IsAttempt(k) /\ ~ IsRetry(k)

DeliveredAt == {k \in Positions : IsAttempt(k) /\ log[k][2] = "Delivered"}

BlockedAt == {k \in Positions : IsFirst(k) /\ log[k][2] = "Forbidden"}

FailedAt ==
  {k \in Positions : \/ IsFirst(k) /\ log[k][2] = "Error"
                     \/ IsRetry(k) /\ log[k][2] # "Delivered"}

\* C7: when a broadcast run over a snapshot of N recipients reports its final counts,
\* delivered + blocked + failed = N and every recipient is counted in exactly one of
\* them; every recipient classified PermanentlyBlocked (TelegramForbiddenError on
\* the first attempt) adds exactly 1 to blocked and has neither a user record nor a
\* payment reference afterwards (as long as no handler of that user has written a row
\* again since the run removed it).
C7_CountsAndRemoval ==
  bc.reply = "Finished" =>
    /\ bc.ok + bc.blocked + bc.failed = Len(bc.subscribers)
    /\ bc.ok = Cardinality(DeliveredAt)
    /\ bc.blocked = Cardinality(BlockedAt)
    /\ bc.failed = Cardinality(FailedAt)
    /\ \A n \in DOMAIN bc.subscribers :
         Cardinality({k \in DeliveredAt \cup BlockedAt \cup FailedAt :
                        log[k][1] = bc.subscribers[n]}) = 1
    /\ \A k \in BlockedAt :
         log[k][1] \in removed =>
           (log[k][1] \notin DOMAIN users /\ log[k][1] \notin DOMAIN payments)

\* C7 witness: a finished run over two recipients, one of them blocked: the holder of
\* a payment reference, who is gone from both tables
C7_Witness ==
  /\ bc.reply = "Finished"
  /\ Len(bc.subscribers) = 2
  /\ bc.blocked = 1
  /\ LegacyHolder \in removed
  /\ LegacyHolder \notin DOMAIN users
  /\ LegacyHolder \notin DOMAIN payments

\* C8: when the first attempt to a recipient is rate limited and the retry succeeds,
\* the recipient is counted as delivered, not failed; between the rate-limit signal
\* and the retry nothing is sent to anybody else (the pause and then the retry to the
\* same recipient follow), and the next recipient is contacted only when the retry's
\* outcome has been counted.
C8_RetryAfterPause ==
  /\ \A k \in Positions :
       (IsFirst(k) /\ log[k][2] = "RetryAfter") =>
         /\ k + 1 <= Len(log) => log[k + 1] = << log[k][1], "pause" >>
         /\ k + 2 <= Len(log) => (IsAttempt(k + 2) /\ log[k + 2][1] = log[k][1])
  /\ bc.pc \in {"pause", "retry"} =>
       \E k \in Positions :
         /\ IsFirst(k) /\ log[k] = << bc.subscribers[bc.i], "RetryAfter" >>
         /\ \A j \in Positions : j > k => log[j] = << bc.subscribers[bc.i], "pause" >>
  /\ bc.ok = Cardinality(DeliveredAt)
  /\ bc.failed = Cardinality(FailedAt)

\* C8 witness: rate limited, paused, delivered on the retry, counted as delivered, and
\* only then the next recipient was contacted
C8_Witness ==
  \E k \in Positions :
    /\ k + 3 <= Len(log)
    /\ IsFirst(k) /\ log[k][2] = "RetryAfter"
    /\ log[k + 2] = << log[k][1], "Delivered" >>
    /\ log[k + 3][1] # log[k][1]
    /\ bc.ok >= 1
    /\ bc.failed = 0

\* C9: in one run every recipient gets at most two delivery attempts, and a second one
\* only after a rate-limited first one; a retry that fails in any way (also with
\* TelegramForbiddenError or a second TelegramRetryAfter) is counted as failed, is not
\* retried again, does not delete the recipient, and the run moves on.  Delivered,
\* blocked and otherwise failed first attempts are never retried.
C9_AtMostOneRetry ==
  /\ \A u \in Users :
       /\ Cardinality({k \in Positions : IsAttempt(k) /\ log[k][1] = u}) <= 2
       /\ Cardinality({k \in Positions : IsFirst(k) /\ log[k][1] = u}) <= 1
  /\ \A k \in Positions :
       log[k][2] = "pause" =>
         (k > 1 /\ IsFirst(k - 1) /\ log[k - 1] = << log[k][1], "RetryAfter" >>)
  /\ \A k \in Positions :
       (IsRetry(k) /\ log[k][2] # "Delivered") =>
         /\ log[k][1] \in DOMAIN users
         /\ log[k][1] \notin removed
         /\ k < Len(log) => log[k + 1][1] # log[k][1]
         /\ k = Len(log) => bc.pc \in {"send", "report", "idle"}
  /\ bc.pc = "remove" =>
       (IsFirst(Len(log)) /\ log[Len(log)] = << bc.subscribers[bc.i], "Forbidden" >>)
  /\ bc.failed = Cardinality(FailedAt)
  /\ bc.blocked = Cardinality(BlockedAt)

\* C9 witness: the retry hit TelegramForbiddenError: counted as failed, the recipient
\* kept its rows, and the next recipient was contacted
C9_Witness ==
  \E k \in Positions :
    /\ IsRetry(k) /\ log[k][2] = "Forbidden"
    /\ k < Len(log)
    /\ bc.failed >= 1
    /\ bc.blocked = 0
    /\ log[k][1] \in DOMAIN users

\* C10: a broadcast run contacts exactly the users that were subscribed when it took
\* its snapshot, whatever toggle_sub does meanwhile: who unsubscribes during the run
\* is still contacted, who subscribes or is created during the run is not.
C10_SnapshotOnly ==
  /\ {log[k][1] : k \in Positions} \subseteq bc.start
  /\ {bc.subscribers[n] : n \in DOMAIN bc.subscribers} = bc.start
  /\ Len(bc.subscribers) = Cardinality(bc.start)
  /\ bc.pc = "report" => {log[k][1] : k \in Positions} = bc.start
  /\ bc.reply = "Finished" => {log[k][1] : k \in Positions} = bc.start

\* C10 witness: at the end of a run a contacted recipient has unsubscribed meanwhile
\* and a user created and subscribed meanwhile has not been contacted
C10_Witness ==
  /\ bc.pc = "report"
  /\ \E u \in bc.start : u \in DOMAIN users /\ ~ get_subscribed(u)
  /\ \E v \in Users \ bc.start : get_subscribed(v) /\ v \notin DOMAIN last.pre[1]

\* C11: the cascading delete of a user is atomic.  No step that any other operation
\* could observe takes away a user's record and leaves the payment reference the user
\* had before the step, or the reverse; the remove_user step of a broadcast leaves the
\* Ledger with both rows of its recipient gone and every other row as it was, or
\* (when it raises) with the whole Ledger as it was.
C11_CascadeAtomic ==
  [][ /\ \A u \in Users :
           /\ (u \in DOMAIN users /\ u \notin DOMAIN users') => u \notin DOMAIN payments'
           /\ (u \in DOMAIN payments /\ u \notin DOMAIN payments') => u \notin DOMAIN users'
      /\ (bc.pc = "remove" /\ bc'.pc # "remove") =>
           \/ ledger' = ledger
           \/ /\ users' = Drop(users, bc.subscribers[bc.i])
              /\ payments' = Drop(payments, bc.subscribers[bc.i])
    ]_vars

\* C11 witness: while a handler of the holder of a payment reference is running, a
\* broadcast has removed that user: both rows are gone
C11_Witness ==
  /\ LegacyHolder \in removed
  /\ LegacyHolder \notin DOMAIN users
  /\ LegacyHolder \notin DOMAIN payments
  /\ \E t \in Tasks :
       /\ tasks[t].pc # "idle"
       /\ tasks[t].user = LegacyHolder
       /\ LegacyHolder \in DOMAIN tasks[t].pre[2]

CreatedFor(u) ==
  {n \in 1 .. Created : TxId(n) \in DOMAIN gw /\ gw[TxId(n)].metadata = str(u)}

LastCreatedFor(u) == CHOOSE n \in CreatedFor(u) : \A m \in CreatedFor(u) : m <= n

\* C13: every user has at most one stored reference (one row per user_id), and once
\* all initiate calls (cb_pay) of a user have returned the reference is the id of the
\* transaction created last at the gateway for that user, also when two cb_pay
\* handlers of the user overlap.
C13_LatestCreatedStored ==
  \A u \in Users :
    (/\ CreatedFor(u) # {}
     /\ \A t \in Tasks : ~ (tasks[t].kind = "pay" /\ tasks[t].user = u)) =>
      get_last_payment(u) = Some(TxId(LastCreatedFor(u)))

\* C14: every broadcast run over its snapshot eventually finishes and reports the
\* final counts, having attempted every recipient of the snapshot; no failure while
\* handling one recipient (a failed delivery of any class, a failed Ledger delete for
\* a blocked recipient) keeps the rest from being attempted or the report from
\* being sent.
C14_EveryRunReports ==
  (bc.pc = "send") ~>
    (/\ bc.pc = "idle"
     /\ bc.reply = "Finished"
     /\ {log[k][1] : k \in Positions} = bc.start)

\* C15: in a broadcast run the pacing delay follows every delivery counted as
\* delivered, before the next recipient is contacted, also when the delivery succeeded
\* on the retry after a rate-limit pause: what follows a Delivered attempt in the run
\* is the pacing sleep for that recipient.
C15_PacingAfterEveryDelivery ==
  \A k \in Positions :
    (IsAttempt(k) /\ log[k][2] = "Delivered" /\ k < Len(log)) =>
      log[k + 1] = << log[k][1], "pace" >>

\* C16: for a user with a stored reference and a gateway fetch that succeeds, check
\* (cb_check) answers Confirmed exactly when the fetched status is succeeded,
\* InProgress exactly when it is pending or waiting_for_capture, and Failed for every
\* other status, a missing one being reported as unknown; the status is the one the
\* gateway holds for the stored reference.  With no stored reference it answers
\* NoPendingPayment and has fetched nothing.
C16_CheckMapping ==
  last.kind = "check" =>
    /\ last.outcome \in {"Confirmed", "InProgress", "Failed"} =>
         /\ last.payment_id # None
         /\ last.status \in {"pending", "waiting_for_capture", "succeeded", "canceled", "unknown"}
         /\ last.outcome = "Confirmed" <=> last.status = "succeeded"
         /\ last.outcome = "InProgress" <=> last.status \in {"pending", "waiting_for_capture"}
         /\ last.outcome = "Failed" <=> last.status \in {"canceled", "unknown"}
         /\ (seen[last.user] # "none" /\ ~ last.touched) =>
              /\ last.payment_id = get_last_payment(last.user)
              /\ last.status = "unknown" <=> gw[last.payment_id[1]].status = NoStatus
              /\ last.status # "unknown" => last.status = gw[last.payment_id[1]].status
    /\ (last.payment_id # None /\ last.outcome # "GatewayError") =>
         last.outcome \in {"Confirmed", "InProgress", "Failed"}
    /\ (~ last.touched /\ last.user \notin DOMAIN last.pre[2]) =>
         last.outcome = "NoPendingPayment"
    /\ last.outcome = "NoPendingPayment" =>
         (last.payment_id = None /\ last.status = "")

\* C16 witness: the gateway reports the stored transaction without a status, the check
\* answered Failed(unknown)
C16_Witness ==
  /\ last.kind = "check"
  /\ last.outcome = "Failed"
  /\ last.status = "unknown"
  /\ seen[last.user] = "Failed"
  /\ gw[last.payment_id[1]].status = NoStatus

\* C17: in every reachable state every user that has a stored payment reference has
\* a user record too, whatever the interleaving of an initiate (cb_pay: upsert_user,
\* gateway create, save_last_payment) with a broadcast run that removes the user.
C17_ReferenceImpliesRecord ==
  DOMAIN payments \subseteq DOMAIN users

\* C18: each completed toggle_sub flips the user's subscription flag: the
\* set_subscribed with which a cb_toggle_sub handler completes leaves the flag the
\* negation of what it was just before, also when two handlers of the user overlap
\* between read and write.  (The flag changes in no other step when no user is deleted,
\* so this is the same as: after k completed toggles the flag is the initial one for
\* even k and its negation for odd k.)
C18_EachToggleFlips ==
  [][ \A t \in Tasks :
        (tasks[t].kind = "toggle_sub" /\ tasks[t].pc = "write" /\ tasks'[t].pc = "idle") =>
          (/\ tasks[t].user \in DOMAIN users'
           /\ users'[tasks[t].user].is_subscribed = ~ get_subscribed(tasks[t].user))
    ]_vars

\* the subscription flag of x in the users table tbl (no record: not subscribed)
FlagIn(tbl, x) == x \in DOMAIN tbl /\ tbl[x].is_subscribed

\* C19: the upsert_user that every handler runs first creates a missing user record
\* with subscribed = false and changes neither the flag nor the payment reference of
\* an existing user (nor any other user's row); no step of initiate, check or grant
\* changes any user's subscription flag; and a user removed by a broadcast who
\* interacts again (before anything else of that user is written) has a record again,
\* unsubscribed, and no payment reference.
C19_UpsertFrame ==
  [][ \A t \in Tasks :
        /\ (tasks[t].pc = "idle" /\ tasks'[t].pc # "idle") =>
             /\ tasks'[t].user \in DOMAIN users'
             /\ users'[tasks'[t].user].is_subscribed = get_subscribed(tasks'[t].user)
             /\ \A x \in Users \ {tasks'[t].user} :
                  /\ x \in DOMAIN users' <=> x \in DOMAIN users
                  /\ x \in DOMAIN users => users'[x] = users[x]
             /\ payments' = payments
             /\ tasks'[t].user \in removed =>
                  /\ ~ users'[tasks'[t].user].is_subscribed
                  /\ tasks'[t].user \notin DOMAIN payments'
        /\ (/\ bc' = bc
            /\ tasks'[t] # tasks[t]
            /\ {tasks[t].kind, tasks'[t].kind} \cap {"pay", "check", "access"} # {}) =>
             \A x \in Users : FlagIn(users', x) = FlagIn(users, x)
    ]_vars

\* C19 witness: the holder, subscribed and with a reference at first, was removed by a
\* broadcast and then asked for access: it has a record again, unsubscribed, and the
\* grant found no reference
C19_Witness ==
  /\ last.kind = "access"
  /\ last.user = LegacyHolder
  /\ LegacyHolder \notin DOMAIN last.pre[1]
  /\ last.outcome = "NoPendingPayment"
  /\ LegacyHolder \in DOMAIN users
  /\ ~ get_subscribed(LegacyHolder)
  /\ LegacyHolder \notin DOMAIN payments

\* C20: a broadcast command sent by anyone but the configured admin, or without a
\* message payload, or when nobody is subscribed, starts no run: it is answered with
\* the refusal, no recipient is contacted and the step leaves the Ledger as it was; a
\* run is started (and recipients contacted, users removed) only by the admin, with
\* a payload, over a non-empty set of subscribers.
C20_RefusedCommandStartsNoRun ==
  /\ [] /\ bc.reply \in {"NoAccess", "Usage", "NoSubscribers"} =>
             (bc.pc = "idle" /\ bc.subscribers = << >> /\ log = << >> /\ removed = {})
        /\ (bc.reply # "none" /\ ~ is_admin(bc.sender)) => bc.reply = "NoAccess"
        /\ (bc.reply # "none" /\ ~ bc.payload) => bc.reply \in {"NoAccess", "Usage"}
        /\ (bc.pc # "idle" \/ log # << >>) =>
             (bc.sender = ADMIN_ID /\ bc.payload /\ bc.start # {})
  /\ [][ (bc.pc = "idle" /\ bc' # bc) =>
           /\ ledger' = ledger
           /\ log' = << >>
           /\ get_subscribers = {} => bc'.reply \in {"NoAccess", "Usage", "NoSubscribers"}
           /\ bc'.pc # "idle" => (bc'.sender = ADMIN_ID /\ bc'.payload /\ get_subscribers # {})
       ]_vars

\* C20 witness: somebody who is not the admin sent a broadcast with a message while
\* there are subscribers: refused, nobody contacted
C20_Witness ==
  /\ bc.reply = "NoAccess"
  /\ bc.sender # ADMIN_ID
  /\ bc.payload
  /\ get_subscribers # {}
  /\ log = << >>
  /\ bc.pc = "idle"

=============================================================================
